---- MODULE Spec2Model ----
(***************************************************************************)
(* FINTRACK ledger: the services behind `dbService` (src/services/db.ts    *)
(* and src/services/mockDb.ts) as a state machine over the stored products *)
(* and transactions and the wall clock, and the App (App.tsx) that         *)
(* subscribes to their changes and fetches what it shows.                  *)
(*                                                                         *)
(* Conventions of the model                                                *)
(*  - time is counted in ticks; a day has TicksPerDay ticks and local      *)
(*    midnight falls on the multiples of TicksPerDay.  An ISO date string  *)
(*    is the tick of the instant it denotes.  Several calls may happen at  *)
(*    the same tick (the same millisecond of Date.now()).                  *)
(*  - an optional value (`x?: T`, a nullable column) is <<>> when absent   *)
(*    and <<v>> when present.                                              *)
(*  - amounts of money are integers (hundredths), quantities are integers: *)
(*    the arithmetic of the model is exact.                                *)
(***************************************************************************)
EXTENDS Integers, Sequences, FiniteSets, TLC

\* ------------------------------------------------------------------ bounds
TicksPerDay == 2        \* ticks in one calendar day
MaxTx == 2              \* transactions added on top of the initial ones
MaxNewProducts == 1     \* products added on top of the initial ones
MaxQty == 2             \* largest gross quantity of an input
MaxPrice == 2           \* largest unit price of an input
MaxFetches == 2         \* fetchData calls awaiting the networked store at once

VARIABLES
  isSupabaseConfigured, \* which service `dbService` is (db.ts:226)
  products,             \* the stored product rows, in insertion order
  transactions,         \* the stored transaction rows
  now,                  \* the wall clock, Date.now() / new Date()
  nextId,               \* the networked store's row counter (id, created_at)
  lastOp,               \* the last call made on the service and its outcome
  subscribers,          \* the callbacks registered with subscribe, by tab and owner
  inflight,             \* the subscribers a change event is on its way to
  fetching,             \* the fetchData calls of the Apps awaiting the store
  view,                 \* inventory, transactions and products held by each App
  submitted             \* the addTransaction calls of the forms awaiting the store

vars == <<isSupabaseConfigured, products, transactions, now, nextId, lastOp,
          subscribers, inflight, fetching, view, submitted>>

\* What the App of a tab holds and what it has asked for.
client == <<subscribers, fetching, view, submitted>>

\* ------------------------------------------------------------------ values
None == <<>>
Some(x) == <<x>>
IsSome(o) == o # <<>>

Users == {"admin-1", "u-2"}

\* The browser tabs; each runs one App with its own `dbService`.
Tabs == {"tab-1", "tab-2"}

\* The instant the module is loaded; a local midnight.
T0 == 5 * TicksPerDay

\* The clock runs from the start to the next midnight.
MaxTicks == TicksPerDay

\* A faulty variant: n added to the wrong field of the date.
AddTicks(date, n) == date + n

\* date.setDate(date.getDate() + n): n calendar days later, same time of day.
AddDays(date, n) == date + n * TicksPerDay

\* today.setHours(0,0,0,0)
StartOfToday(t) == t - (t % TicksPerDay)

\* `if (tx.creditPeriod)`: present and not 0.
Truthy(o) == IsSome(o) /\ o[1] # 0

\* `Number(x) || 0` of an optional number.
NumberOr0(o) == IF IsSome(o) THEN o[1] ELSE 0

\* ------------------------------------------------------------------ initial data (mockDb.ts)
INITIAL_PRODUCTS ==
  << [id |-> <<"p", 1>>, userId |-> "admin-1", name |-> "Arabica Coffee Beans",
      minStockLevel |-> 50, unit |-> "kg"],
     [id |-> <<"p", 2>>, userId |-> "admin-1", name |-> "Vanilla Extract",
      minStockLevel |-> 10, unit |-> "l"],
     [id |-> <<"p", 3>>, userId |-> "admin-1", name |-> "Cardboard Boxes",
      minStockLevel |-> 100, unit |-> "pcs"] >>

\* t-1: 500 kg less 10 at 12.50, bought 5 days ago on 30 days' credit.
INITIAL_TRANSACTIONS ==
  << [id |-> <<"t", 1>>, createdAt |-> None, userId |-> "admin-1",
      productId |-> <<"p", 1>>, productName |-> "Arabica Coffee Beans",
      type |-> "purchase", quantity |-> 500, deduction |-> 10,
      extraAmount |-> None, unit |-> "kg", pricePerUnit |-> 1250,
      totalValue |-> 612500, date |-> T0 - 5 * TicksPerDay,
      paymentType |-> "credit", creditPeriod |-> Some(30),
      dueDate |-> Some(T0 + 25 * TicksPerDay), paymentStatus |-> "pending"] >>

\* The mock starts from INITIAL_PRODUCTS and INITIAL_TRANSACTIONS (getStorage on
\* an empty localStorage).  The networked store is persistent and starts with
\* the rows earlier sessions left in it: here the same three products, which
\* took its first row numbers, and no transaction.
Init ==
  /\ isSupabaseConfigured \in BOOLEAN
  /\ products = INITIAL_PRODUCTS
  /\ transactions = IF isSupabaseConfigured THEN <<>> ELSE INITIAL_TRANSACTIONS
  /\ now = T0
  /\ nextId = Len(INITIAL_PRODUCTS) + 1
  /\ lastOp = [op |-> "init"]
  /\ subscribers = {}
  /\ inflight = {}
  /\ fetching = <<>>
  /\ view = <<>>
  /\ submitted = {}

\* The rows the networked store may be asked to insert before the model stops
\* adding (its row counter is unbounded).
MaxInserts == Len(INITIAL_PRODUCTS) + MaxTx + MaxNewProducts

InitialProductCount == Len(INITIAL_PRODUCTS)
InitialTxCount == IF isSupabaseConfigured THEN 0 ELSE Len(INITIAL_TRANSACTIONS)

\* ------------------------------------------------------------------ helpers
Abs(x) == IF x < 0 THEN 0 - x ELSE x

RECURSIVE Gcd(_, _)
Gcd(a, b) == IF b = 0 THEN a ELSE Gcd(b, a % b)

\* The quotient n / d of two integers, d > 0, as a fraction in lowest terms.
Divide(n, d) ==
  LET g == Gcd(Abs(n), d) IN [num |-> n \div g, den |-> d \div g]

\* The number 0 as a fraction.
Zero == [num |-> 0, den |-> 1]

\* Lexicographic order of the product names the model uses.
NameOrder == <<"Arabica Coffee Beans", "Cardboard Boxes", "Vanilla Extract", "Widget">>
NameRank(n) == CHOOSE i \in 1..Len(NameOrder) : NameOrder[i] = n

\* .order('name', { ascending: true }): insertion into a sorted sequence; rows
\* with equal names keep their insertion order.
RECURSIVE OrderByName(_)
InsertByName(sorted, p) ==
  LET before == {i \in 1..Len(sorted) : NameRank(sorted[i].name) <= NameRank(p.name)}
      k == Cardinality(before)
  IN  SubSeq(sorted, 1, k) \o <<p>> \o SubSeq(sorted, k + 1, Len(sorted))
OrderByName(s) ==
  IF s = <<>> THEN <<>>
  ELSE InsertByName(OrderByName(SubSeq(s, 1, Len(s) - 1)), s[Len(s)])

\* .order('date', { ascending: false }).order('created_at', { ascending: false })
Newer(a, b) ==
  \/ a.date > b.date
  \/ a.date = b.date /\ a.createdAt[1] > b.createdAt[1]
RECURSIVE OrderByDateDesc(_)
InsertByDate(sorted, t) ==
  LET before == {i \in 1..Len(sorted) : Newer(sorted[i], t)}
      k == Cardinality(before)
  IN  SubSeq(sorted, 1, k) \o <<t>> \o SubSeq(sorted, k + 1, Len(sorted))
OrderByDateDesc(s) ==
  IF s = <<>> THEN <<>>
  ELSE InsertByDate(OrderByDateDesc(SubSeq(s, 1, Len(s) - 1)), s[Len(s)])

\* ------------------------------------------------------------------ reads
\* getProducts(userId): the owner's products; the networked store orders them
\* by name, the mock returns them in storage order.
\* A faulty variant: the products of every owner.
ProductsOfAnyOwner(prods, userId) ==
  IF isSupabaseConfigured THEN OrderByName(prods) ELSE prods

\* getProducts(userId) on the stored product rows `prods`.
ProductsOf(prods, userId) ==
  LET own == SelectSeq(prods, LAMBDA p : p.userId = userId)
  IN  IF isSupabaseConfigured THEN OrderByName(own) ELSE own

GetProducts(userId) == ProductsOf(products, userId)

\* Faulty variants of the status refresh: one that returns the stored status,
\* one that does not look at the stored status.
StatusAsStored(t, clock) == t.paymentStatus

RefreshWhateverStatus(t, clock) ==
  IF IsSome(t.dueDate) /\ t.dueDate[1] < StartOfToday(clock)
  THEN "overdue" ELSE t.paymentStatus

\* db.ts getTransactions, the mapping of one row: a pending row whose due date
\* is before the start of today is returned overdue.
SupabaseRefreshStatus(t, clock) ==
  IF t.paymentStatus = "pending" /\ IsSome(t.dueDate)
       /\ t.dueDate[1] < StartOfToday(clock)
  THEN "overdue" ELSE t.paymentStatus

SupabaseMapRow(t, clock) ==
  [id |-> t.id, userId |-> t.userId, productId |-> t.productId,
   productName |-> t.productName, type |-> t.type,
   quantity |-> t.quantity, deduction |-> t.deduction,
   extraAmount |-> Some(NumberOr0(t.extraAmount)),
   unit |-> t.unit, pricePerUnit |-> t.pricePerUnit,
   totalValue |-> t.totalValue, date |-> t.date,
   paymentType |-> IF t.paymentType = "credit" THEN "credit" ELSE "cash",
   paymentStatus |-> SupabaseRefreshStatus(t, clock),
   dueDate |-> t.dueDate,
   creditPeriod |-> IF Truthy(t.creditPeriod) THEN t.creditPeriod ELSE None]

\* mockDb.ts getTransactions, the mapping of one row: a pending row whose due
\* date is before now is returned overdue.
MockRefreshStatus(t, clock) ==
  IF t.paymentStatus = "pending" /\ IsSome(t.dueDate) /\ t.dueDate[1] < clock
  THEN "overdue" ELSE t.paymentStatus

MockMapRow(t, clock) ==
  [id |-> t.id, userId |-> t.userId, productId |-> t.productId,
   productName |-> t.productName, type |-> t.type,
   quantity |-> t.quantity, deduction |-> t.deduction,
   extraAmount |-> None,
   unit |-> t.unit, pricePerUnit |-> t.pricePerUnit,
   totalValue |-> t.totalValue, date |-> t.date,
   paymentType |-> t.paymentType,
   paymentStatus |-> MockRefreshStatus(t, clock),
   dueDate |-> t.dueDate,
   creditPeriod |-> Some(NumberOr0(t.creditPeriod))]

\* A faulty variant: the transactions of every owner.
TransactionsOfAnyOwner(rows, userId, clock) ==
  IF isSupabaseConfigured
  THEN LET data == OrderByDateDesc(rows)
       IN  [i \in 1..Len(data) |-> SupabaseMapRow(data[i], clock)]
  ELSE [i \in 1..Len(rows) |-> MockMapRow(rows[i], clock)]

\* getTransactions(userId) on the stored rows `rows` at time `clock`.
TransactionsOf(rows, userId, clock) ==
  LET own == SelectSeq(rows, LAMBDA t : t.userId = userId)
  IN  IF isSupabaseConfigured
      THEN LET data == OrderByDateDesc(own)
           IN  [i \in 1..Len(data) |-> SupabaseMapRow(data[i], clock)]
      ELSE [i \in 1..Len(own) |-> MockMapRow(own[i], clock)]

GetTransactions(userId) == TransactionsOf(transactions, userId, now)

\* ------------------------------------------------------------------ valuation
\* Faulty variants of the fold, against which the valuation properties are
\* tested: one that counts gross quantities, one that adds the extra charge to
\* the cost, one that does not let the stock fall below 0.
RECURSIVE FoldGrossQuantities(_, _, _)
FoldGrossQuantities(productTx, i, acc) ==
  IF i > Len(productTx) THEN acc
  ELSE LET tx == productTx[i]
           netQty == tx.quantity
       IN  FoldGrossQuantities(productTx, i + 1,
             IF tx.type = "purchase"
             THEN [stock |-> acc.stock + netQty,
                   totalCost |-> acc.totalCost + netQty * tx.pricePerUnit,
                   totalPurchased |-> acc.totalPurchased + netQty]
             ELSE [acc EXCEPT !.stock = acc.stock - netQty])

RECURSIVE FoldCostWithExtra(_, _, _)
FoldCostWithExtra(productTx, i, acc) ==
  IF i > Len(productTx) THEN acc
  ELSE LET tx == productTx[i]
           netQty == tx.quantity - tx.deduction
       IN  FoldCostWithExtra(productTx, i + 1,
             IF tx.type = "purchase"
             THEN [stock |-> acc.stock + netQty,
                   totalCost |-> acc.totalCost + netQty * tx.pricePerUnit
                                   + NumberOr0(tx.extraAmount),
                   totalPurchased |-> acc.totalPurchased + netQty]
             ELSE [acc EXCEPT !.stock = acc.stock - netQty])

RECURSIVE FoldClampedStock(_, _, _)
FoldClampedStock(productTx, i, acc) ==
  IF i > Len(productTx) THEN acc
  ELSE LET tx == productTx[i]
           netQty == tx.quantity - tx.deduction
       IN  FoldClampedStock(productTx, i + 1,
             IF tx.type = "purchase"
             THEN [stock |-> acc.stock + netQty,
                   totalCost |-> acc.totalCost + netQty * tx.pricePerUnit,
                   totalPurchased |-> acc.totalPurchased + netQty]
             ELSE [acc EXCEPT !.stock =
                     IF acc.stock - netQty < 0 THEN 0 ELSE acc.stock - netQty])

\* getInventorySummary, the forEach over a product's transactions, from the
\* i-th on, with the accumulators stock, totalCost and totalPurchased.
RECURSIVE FoldTransactions(_, _, _)
FoldTransactions(productTx, i, acc) ==
  IF i > Len(productTx) THEN acc
  ELSE LET tx == productTx[i]
           netQty == tx.quantity - tx.deduction
       IN  FoldTransactions(productTx, i + 1,
             IF tx.type = "purchase"
             THEN [stock |-> acc.stock + netQty,
                   totalCost |-> acc.totalCost + netQty * tx.pricePerUnit,
                   totalPurchased |-> acc.totalPurchased + netQty]
             ELSE [acc EXCEPT !.stock = acc.stock - netQty])

\* A faulty variant: a stock at the minimum level counted as low.
StockStatusLowAtLevel(stock, minStockLevel) ==
  IF stock <= 0 THEN "out" ELSE IF stock <= minStockLevel THEN "low" ELSE "ok"

\* `stock <= 0 ? 'out' : stock < product.minStockLevel ? 'low' : 'ok'`
StockStatus(stock, minStockLevel) ==
  IF stock <= 0 THEN "out" ELSE IF stock < minStockLevel THEN "low" ELSE "ok"

\* getInventorySummary, the body of products.map: the InventoryItem of one
\* product over the transactions `txs` the read returned.
Summarize(product, txs) ==
  LET productTx == SelectSeq(txs, LAMBDA t : t.productId = product.id)
      acc == FoldTransactions(productTx, 1,
               [stock |-> 0, totalCost |-> 0, totalPurchased |-> 0])
      avgCost == IF acc.totalPurchased > 0
                 THEN Divide(acc.totalCost, acc.totalPurchased) ELSE Zero
  IN  [id |-> product.id, userId |-> product.userId, name |-> product.name,
       minStockLevel |-> product.minStockLevel, unit |-> product.unit,
       stock |-> acc.stock,
       avgCost |-> avgCost,
       totalValue |-> Divide(acc.stock * avgCost.num, avgCost.den),
       status |-> StockStatus(acc.stock, product.minStockLevel)]

\* getInventorySummary(userId) on the stored rows `prods` and `rows` at time
\* `clock`.
InventorySummaryOf(prods, rows, userId, clock) ==
  LET ps == ProductsOf(prods, userId)
      txs == TransactionsOf(rows, userId, clock)
  IN  [i \in 1..Len(ps) |-> Summarize(ps[i], txs)]

GetInventorySummary(userId) ==
  InventorySummaryOf(products, transactions, userId, now)

\* ------------------------------------------------------------------ change notification
\* mockDb.ts broadcastUpdate, called on the `dbService` of tab `tab`: the
\* message is posted on that tab's BroadcastChannel object and is dispatched
\* to the other BroadcastChannel objects of the same name, never to the object
\* that posted it; every handler registered there gets it, whatever its owner.
BroadcastUpdate(tab) ==
  inflight' = inflight \cup {s \in subscribers : s.tab # tab}

\* db.ts subscribe, the postgres_changes of the tables transactions and
\* products filtered by `user_id=eq.${userId}`: a change of rows of `userId`
\* is sent to the subscribers of that owner, in every tab.
PostgresChanges(userId) ==
  inflight' = inflight \cup {s \in subscribers : s.userId = userId}

\* The change notification of a call by `userId`; `changed` tells whether the
\* statement of the networked store touched a row.
Notify(userId, changed) ==
  IF isSupabaseConfigured
  THEN IF changed THEN PostgresChanges(userId) ELSE UNCHANGED inflight
  ELSE \E tab \in Tabs : BroadcastUpdate(tab)

\* ------------------------------------------------------------------ addProduct
\* db.ts addProduct: one row inserted, the store assigns the id; a store error
\* is thrown and nothing is inserted.
SupabaseAddProduct(product, userId, storeOk) ==
  IF storeOk
  THEN /\ products' = Append(products,
            [id |-> <<"p", nextId>>, userId |-> userId, name |-> product.name,
             minStockLevel |-> product.minStockLevel, unit |-> product.unit])
       /\ nextId' = nextId + 1
       /\ lastOp' = [op |-> "addProduct", userId |-> userId, outcome |-> "ok"]
       /\ Notify(userId, TRUE)
  ELSE /\ UNCHANGED <<products, nextId, inflight>>
       /\ lastOp' = [op |-> "addProduct", userId |-> userId, outcome |-> "StoreError"]

\* mockDb.ts addProduct: the id is `p-${Date.now()}`.
MockAddProduct(product, userId) ==
  /\ products' = Append(products,
       [id |-> <<"p", now>>, userId |-> userId, name |-> product.name,
        minStockLevel |-> product.minStockLevel, unit |-> product.unit])
  /\ lastOp' = [op |-> "addProduct", userId |-> userId, outcome |-> "ok"]
  /\ Notify(userId, TRUE)
  /\ UNCHANGED nextId

AddProduct(product, userId) ==
  /\ Len(products) < InitialProductCount + MaxNewProducts
  /\ nextId <= MaxInserts
  /\ IF isSupabaseConfigured
     THEN \E storeOk \in BOOLEAN : SupabaseAddProduct(product, userId, storeOk)
     ELSE MockAddProduct(product, userId)
  /\ UNCHANGED <<isSupabaseConfigured, transactions, now, client>>

\* ------------------------------------------------------------------ addTransaction
\* products.find(p => p.id === tx.productId): the first match, if any.
FindProduct(prods, productId) ==
  LET hits == SelectSeq(prods, LAMBDA p : p.id = productId)
  IN  IF hits = <<>> THEN None ELSE Some(hits[1])

\* db.ts:109-110
SupabaseTotalValue(tx) ==
  LET netQuantity == tx.quantity - tx.deduction
  IN  netQuantity * tx.pricePerUnit + tx.extraAmount

\* db.ts:113-115
SupabasePaymentStatus(tx) ==
  IF tx.paymentType = "credit" THEN "pending" ELSE "paid"

\* A faulty variant: the due date computed whatever the payment type.
DueDateOfAnyPaymentType(tx) ==
  IF Truthy(tx.creditPeriod)
  THEN Some(AddDays(tx.date, tx.creditPeriod[1])) ELSE None

\* db.ts:112-121
SupabaseDueDate(tx) ==
  IF tx.paymentType = "credit" /\ Truthy(tx.creditPeriod)
  THEN Some(AddDays(tx.date, tx.creditPeriod[1])) ELSE None

\* The row db.ts addTransaction inserts.
SupabaseNewRow(tx, product, userId) ==
  [id |-> <<"t", nextId>>, createdAt |-> Some(nextId), userId |-> userId,
   productId |-> tx.productId, productName |-> product.name,
   type |-> tx.type, quantity |-> tx.quantity, deduction |-> tx.deduction,
   extraAmount |-> Some(tx.extraAmount), unit |-> product.unit,
   pricePerUnit |-> tx.pricePerUnit, totalValue |-> SupabaseTotalValue(tx),
   date |-> tx.date, paymentType |-> tx.paymentType,
   creditPeriod |-> tx.creditPeriod,
   dueDate |-> SupabaseDueDate(tx), paymentStatus |-> SupabasePaymentStatus(tx)]

\* mockDb.ts:178-179
MockTotalValue(tx) ==
  LET netQuantity == tx.quantity - tx.deduction
  IN  netQuantity * tx.pricePerUnit

\* mockDb.ts:182-184
MockPaymentStatus(tx) ==
  IF tx.paymentType = "credit" THEN "pending" ELSE "paid"

\* mockDb.ts:181-190
MockDueDate(tx) ==
  IF tx.paymentType = "credit" /\ Truthy(tx.creditPeriod)
  THEN Some(AddDays(tx.date, NumberOr0(tx.creditPeriod))) ELSE None

\* The row mockDb.ts addTransaction stores; the id is `t-${Date.now()}`.
MockNewRow(tx, product, userId) ==
  [id |-> <<"t", now>>, createdAt |-> None, userId |-> userId,
   productId |-> tx.productId, productName |-> product.name,
   type |-> tx.type, quantity |-> tx.quantity, deduction |-> tx.deduction,
   extraAmount |-> None, unit |-> product.unit,
   pricePerUnit |-> tx.pricePerUnit, totalValue |-> MockTotalValue(tx),
   date |-> tx.date, paymentType |-> tx.paymentType,
   creditPeriod |-> tx.creditPeriod,
   dueDate |-> MockDueDate(tx), paymentStatus |-> MockPaymentStatus(tx)]

\* The error objects the networked store answers an insert with: one with a
\* message, one with nothing but a hint, one with no text at all.
StoreErrors ==
  {[message |-> "duplicate key value", details |-> "", hint |-> ""],
   [message |-> "", details |-> "", hint |-> "retry later"],
   [message |-> "", details |-> "", hint |-> ""]}

\* A faulty variant: the text of the store dropped.
FixedMessage(error) == "Transaction creation failed"

\* db.ts:149, the message of the Error thrown.
ErrorMessage(error) ==
  IF error.message # "" THEN error.message
  ELSE IF error.details # "" THEN error.details
  ELSE IF error.hint # "" THEN error.hint
  ELSE "Transaction creation failed"

\* addTransaction(tx, products, userId) of either service.  Neither looks at
\* the stock of the product.
AddTransactionCall(tx, prods, userId) ==
  /\ Len(transactions) < InitialTxCount + MaxTx
  /\ nextId <= MaxInserts - MaxNewProducts + (Len(products) - InitialProductCount)
  /\ LET found == FindProduct(prods, tx.productId) IN
     IF found = None
     THEN /\ lastOp' = [op |-> "addTransaction", userId |-> userId,
                        outcome |-> "Product not found"]
          /\ UNCHANGED <<transactions, nextId, inflight>>
     ELSE IF isSupabaseConfigured
     THEN \E error \in {None} \cup {Some(e) : e \in StoreErrors} :
            IF error = None
            THEN /\ transactions' =
                      Append(transactions, SupabaseNewRow(tx, found[1], userId))
                 /\ nextId' = nextId + 1
                 /\ lastOp' = [op |-> "addTransaction", userId |-> userId,
                               outcome |-> "ok", tx |-> tx,
                               result |-> SupabaseNewRow(tx, found[1], userId)]
                 /\ Notify(userId, TRUE)
            ELSE /\ UNCHANGED <<transactions, nextId, inflight>>
                 /\ lastOp' = [op |-> "addTransaction", userId |-> userId,
                               outcome |-> "StoreError", error |-> error[1],
                               message |-> ErrorMessage(error[1])]
     ELSE /\ transactions' = <<MockNewRow(tx, found[1], userId)>> \o transactions
          /\ lastOp' = [op |-> "addTransaction", userId |-> userId,
                        outcome |-> "ok", tx |-> tx,
                        result |-> MockNewRow(tx, found[1], userId)]
          /\ Notify(userId, TRUE)
          /\ UNCHANGED nextId
  /\ UNCHANGED <<isSupabaseConfigured, products, now>>

\* addTransaction called on the service directly.
AddTransaction(tx, prods, userId) ==
  /\ AddTransactionCall(tx, prods, userId)
  /\ UNCHANGED client

\* ------------------------------------------------------------------ markTransactionAsPaid, deleteTransaction
\* .eq('id', id).eq('user_id', userId) selects a row.
Matches(rows, id, userId) ==
  \E i \in 1..Len(rows) : rows[i].id = id /\ rows[i].userId = userId

\* A faulty variant: the status of the row switched between paid and pending.
SwitchPaidRows(rows, id, userId) ==
  [i \in 1..Len(rows) |->
     IF rows[i].id = id /\ rows[i].userId = userId
     THEN [rows[i] EXCEPT !.paymentStatus =
             IF rows[i].paymentStatus = "paid" THEN "pending" ELSE "paid"]
     ELSE rows[i]]

\* .update({ payment_status: 'paid' }).eq('id', id).eq('user_id', userId), and
\* the map of mockDb.ts:219: every row with that id and owner becomes paid.
MarkPaidRows(rows, id, userId) ==
  [i \in 1..Len(rows) |->
     IF rows[i].id = id /\ rows[i].userId = userId
     THEN [rows[i] EXCEPT !.paymentStatus = "paid"] ELSE rows[i]]

MarkTransactionAsPaid(id, userId) ==
  /\ \E storeOk \in (IF isSupabaseConfigured THEN BOOLEAN ELSE {TRUE}) :
       IF storeOk
       THEN /\ transactions' = MarkPaidRows(transactions, id, userId)
            /\ lastOp' = [op |-> "markTransactionAsPaid", userId |-> userId,
                          id |-> id, outcome |-> "ok"]
            /\ Notify(userId, Matches(transactions, id, userId))
       ELSE /\ UNCHANGED <<transactions, inflight>>
            /\ lastOp' = [op |-> "markTransactionAsPaid", userId |-> userId,
                          id |-> id, outcome |-> "StoreError"]
  /\ UNCHANGED <<isSupabaseConfigured, products, now, nextId, client>>

\* A faulty variant: the owner of the row not compared.
DeleteRowsById(rows, id, userId) ==
  SelectSeq(rows, LAMBDA t : t.id # id)

\* .delete().eq('id', id).eq('user_id', userId), and the filter of
\* mockDb.ts:225: every row with that id and owner is removed.
DeleteRows(rows, id, userId) ==
  SelectSeq(rows, LAMBDA t : t.id # id \/ t.userId # userId)

DeleteTransaction(id, userId) ==
  /\ \E storeOk \in (IF isSupabaseConfigured THEN BOOLEAN ELSE {TRUE}) :
       IF storeOk
       THEN /\ transactions' = DeleteRows(transactions, id, userId)
            /\ lastOp' = [op |-> "deleteTransaction", userId |-> userId,
                          id |-> id, outcome |-> "ok"]
            /\ Notify(userId, Matches(transactions, id, userId))
       ELSE /\ UNCHANGED <<transactions, inflight>>
            /\ lastOp' = [op |-> "deleteTransaction", userId |-> userId,
                          id |-> id, outcome |-> "StoreError"]
  /\ UNCHANGED <<isSupabaseConfigured, products, now, nextId, client>>

\* ------------------------------------------------------------------ reads as calls
\* A call of getTransactions(userId): the store is left as it is.
\* A faulty variant of the read: the refreshed statuses are written back to
\* the stored rows of the caller.
ReadTransactionsStoringStatus(userId) ==
  /\ lastOp' = [op |-> "getTransactions", userId |-> userId, outcome |-> "ok",
                result |-> GetTransactions(userId)]
  /\ transactions' =
       [i \in 1..Len(transactions) |->
          IF transactions[i].userId = userId
          THEN [transactions[i] EXCEPT !.paymentStatus =
                  IF isSupabaseConfigured
                  THEN SupabaseRefreshStatus(transactions[i], now)
                  ELSE MockRefreshStatus(transactions[i], now)]
          ELSE transactions[i]]
  /\ UNCHANGED <<isSupabaseConfigured, products, now, nextId, inflight, client>>

ReadTransactions(userId) ==
  /\ lastOp' = [op |-> "getTransactions", userId |-> userId, outcome |-> "ok",
                result |-> GetTransactions(userId)]
  /\ UNCHANGED <<isSupabaseConfigured, products, transactions, now, nextId,
                 inflight, client>>

\* A call of getProducts(userId): the store is left as it is.
ReadProducts(userId) ==
  /\ lastOp' = [op |-> "getProducts", userId |-> userId, outcome |-> "ok",
                result |-> GetProducts(userId)]
  /\ UNCHANGED <<isSupabaseConfigured, products, transactions, now, nextId,
                 inflight, client>>

\* A call of getInventorySummary(userId): the store is left as it is.
ReadInventorySummary(userId) ==
  /\ lastOp' = [op |-> "getInventorySummary", userId |-> userId, outcome |-> "ok",
                result |-> GetInventorySummary(userId)]
  /\ UNCHANGED <<isSupabaseConfigured, products, transactions, now, nextId,
                 inflight, client>>

\* ------------------------------------------------------------------ the clock
Tick ==
  /\ now < T0 + MaxTicks
  /\ now' = now + 1
  /\ lastOp' = [op |-> "tick"]
  /\ UNCHANGED <<isSupabaseConfigured, products, transactions, nextId,
                 inflight, client>>

\* ------------------------------------------------------------------ inputs
Owner == "admin-1"

MissingProductId == <<"p", 0>>
MissingTransactionId == <<"t", 0>>

ProductInputs == [name : {"Widget"}, minStockLevel : {MaxQty}, unit : {"pcs"}]

\* The ids of the first n products of a list.
FirstIds(prods, n) == {prods[i].id : i \in 1..(IF Len(prods) < n THEN Len(prods) ELSE n)}

\* The transaction date of the inputs: the midnight before the start.
Dates == {T0 - TicksPerDay}

\* Payment terms: cash, cash with a credit period filled in, credit with no
\* period, with a period of 0 days and with a period of 1 day.
PaymentTerms ==
  {<<"cash", None>>, <<"cash", Some(1)>>,
   <<"credit", None>>, <<"credit", Some(0)>>, <<"credit", Some(1)>>}

\* Inputs that vary the payment terms and the date.
LifecycleInputs(prods) ==
  {[productId |-> pid, type |-> "purchase", quantity |-> 1, deduction |-> 0,
    extraAmount |-> 0, pricePerUnit |-> 1, date |-> d,
    paymentType |-> terms[1], creditPeriod |-> terms[2]] :
     pid \in FirstIds(prods, 1) \cup {MissingProductId}, d \in Dates,
     terms \in PaymentTerms}

TransactionIds == {transactions[i].id : i \in 1..Len(transactions)}

\* ------------------------------------------------------------------ specification: payment lifecycle
Next ==
  \/ \E tx \in LifecycleInputs(GetProducts(Owner)) :
       AddTransaction(tx, GetProducts(Owner), Owner)
  \/ \E id \in TransactionIds \cup {MissingTransactionId} :
       MarkTransactionAsPaid(id, Owner)
  \/ \E id \in TransactionIds \cup {MissingTransactionId} :
       DeleteTransaction(id, Owner)
  \/ ReadTransactions(Owner)
  \/ Tick

Spec == Init /\ [][Next]_vars

\* ------------------------------------------------------------------ specification: valuation
\* Inputs that vary the quantities and the amounts: purchases with and without
\* deduction and extra charge, at two prices, and sales.
ValuationInputs(prods) ==
  {[productId |-> pid, type |-> "purchase", quantity |-> q, deduction |-> d,
    extraAmount |-> e, pricePerUnit |-> p, date |-> T0,
    paymentType |-> "cash", creditPeriod |-> None] :
     pid \in FirstIds(prods, 2), q \in 1..MaxQty, d \in {0, 1},
     e \in {0, MaxPrice}, p \in {1, MaxPrice}}
  \cup
  {[productId |-> pid, type |-> "sale", quantity |-> q, deduction |-> 0,
    extraAmount |-> 0, pricePerUnit |-> MaxPrice, date |-> T0,
    paymentType |-> "cash", creditPeriod |-> None] :
     pid \in FirstIds(prods, 2), q \in 1..MaxQty}

NextVal ==
  \/ \E tx \in ValuationInputs(GetProducts(Owner)) :
       AddTransaction(tx, GetProducts(Owner), Owner)
  \/ ReadInventorySummary(Owner)

SpecVal == Init /\ [][NextVal]_vars

\* ------------------------------------------------------------------ properties: vocabulary
\* The sum of f over the finite set S of its arguments.
RECURSIVE Sum(_, _)
Sum(f, S) ==
  IF S = {} THEN 0
  ELSE LET x == CHOOSE y \in S : TRUE IN f[x] + Sum(f, S \ {x})

\* The stored transactions of `userId` of type `type` for product `pid`, by
\* their positions in the store.
StoredOf(userId, pid, type) ==
  {i \in 1..Len(transactions) :
     /\ transactions[i].userId = userId
     /\ transactions[i].productId = pid
     /\ transactions[i].type = type}

NetQuantity == [i \in 1..Len(transactions) |->
                  transactions[i].quantity - transactions[i].deduction]

MaterialCost == [i \in 1..Len(transactions) |->
                   NetQuantity[i] * transactions[i].pricePerUnit]

\* Net quantity bought less net quantity sold, over the stored rows.
LedgerStock(userId, pid) ==
  Sum(NetQuantity, StoredOf(userId, pid, "purchase"))
    - Sum(NetQuantity, StoredOf(userId, pid, "sale"))

\* The stock getInventorySummary(userId) computes for product `pid` now.
ComputedStock(userId, pid) ==
  LET inv == GetInventorySummary(userId)
      k == CHOOSE j \in 1..Len(inv) : inv[j].id = pid
  IN  inv[k].stock

SummaryReturned ==
  lastOp.op = "getInventorySummary" /\ lastOp.outcome = "ok"

TransactionAdded ==
  lastOp.op = "addTransaction" /\ lastOp.outcome = "ok"

\* ------------------------------------------------------------------ C1
\* C1: a sale whose net quantity exceeds the stock computed from the store at
\* the moment of the call is rejected and leaves the stored transactions as
\* they were.
C1_OversellRejected ==
  [][(/\ lastOp'.op = "addTransaction"
      /\ lastOp'.outcome = "ok"
      /\ lastOp'.tx.type = "sale"
      /\ lastOp'.tx.quantity - lastOp'.tx.deduction
           > ComputedStock(lastOp'.userId, lastOp'.tx.productId))
     => transactions' = transactions]_vars

\* ------------------------------------------------------------------ C2
\* C2: the stock getInventorySummary reports for a product is the net quantity
\* of its stored purchases less the net quantity of its stored sales; the
\* transactions of other products do not count.
C2_StockIsNetPurchasesLessNetSales ==
  SummaryReturned =>
    \A k \in 1..Len(lastOp.result) :
      lastOp.result[k].stock = LedgerStock(lastOp.userId, lastOp.result[k].id)

\* A summary was returned for an owner who has purchases and sales of one
\* product and transactions of another product.
C2_Witness ==
  /\ SummaryReturned
  /\ \E k, m \in 1..Len(lastOp.result) :
       /\ k # m
       /\ StoredOf(lastOp.userId, lastOp.result[k].id, "purchase") # {}
       /\ StoredOf(lastOp.userId, lastOp.result[k].id, "sale") # {}
       /\ StoredOf(lastOp.userId, lastOp.result[m].id, "purchase") # {}
       /\ lastOp.result[k].stock # 0

\* ------------------------------------------------------------------ C3
\* C3: a transaction created with 0 <= deduction <= quantity is persisted with
\* totalValue = (quantity - deduction) * pricePerUnit + extraAmount.
C3_TotalValueFormula ==
  (TransactionAdded /\ 0 <= lastOp.tx.deduction
     /\ lastOp.tx.deduction <= lastOp.tx.quantity)
  => /\ \E i \in 1..Len(transactions) : transactions[i] = lastOp.result
     /\ lastOp.result.totalValue =
          (lastOp.tx.quantity - lastOp.tx.deduction) * lastOp.tx.pricePerUnit
            + lastOp.tx.extraAmount

\* ------------------------------------------------------------------ C9
\* C9: the avgCost getInventorySummary reports for a product is the sum of
\* netQuantity * pricePerUnit over its stored purchases divided by the sum of
\* netQuantity over them when that sum is positive, and 0 otherwise; extra
\* charges and sales do not enter it.
C9_AvgCostIsMaterialCostPerUnit ==
  SummaryReturned =>
    \A k \in 1..Len(lastOp.result) :
      LET item == lastOp.result[k]
          bought == StoredOf(lastOp.userId, item.id, "purchase")
          qty == Sum(NetQuantity, bought)
          cost == Sum(MaterialCost, bought)
      IN  IF qty > 0
          THEN item.avgCost.den > 0 /\ item.avgCost.num * qty = cost * item.avgCost.den
          ELSE item.avgCost = Zero

\* A summary was returned for a product bought twice at different prices, once
\* with an extra charge, and sold once.
C9_Witness ==
  /\ SummaryReturned
  /\ \E k \in 1..Len(lastOp.result) :
       LET item == lastOp.result[k]
           bought == StoredOf(lastOp.userId, item.id, "purchase")
       IN  /\ \E i, j \in bought :
                /\ transactions[i].pricePerUnit # transactions[j].pricePerUnit
                /\ NetQuantity[i] > 0 /\ NetQuantity[j] > 0
           /\ StoredOf(lastOp.userId, item.id, "sale") # {}
           /\ item.avgCost.den > 1

\* ------------------------------------------------------------------ C10
\* The rearrangements of a sequence.
Rearrangements(s) ==
  LET n == Len(s)
      bijections == {f \in [1..n -> 1..n] : \A i, j \in 1..n : f[i] = f[j] => i = j}
  IN  {[i \in 1..n |-> s[f[i]]] : f \in bijections}

TransactionsReturned ==
  lastOp.op = "getTransactions" /\ lastOp.outcome = "ok"

\* The stored row is pending and its due date is before the start of today.
PendingPastDue(t) ==
  /\ t.paymentStatus = "pending"
  /\ IsSome(t.dueDate)
  /\ t.dueDate[1] < StartOfToday(now)

\* The stored rows of the caller of the last call like `t` (same id and due
\* date) with stored status `status`, and the returned rows like `t` with
\* returned status `status`.  (Ids of the mock repeat within one tick.)
StoredLike(t, status) ==
  {j \in 1..Len(transactions) :
     /\ transactions[j].userId = lastOp.userId
     /\ transactions[j].id = t.id
     /\ transactions[j].dueDate = t.dueDate
     /\ transactions[j].paymentStatus = status}

ReturnedLike(t, status) ==
  {k \in 1..Len(lastOp.result) :
     /\ lastOp.result[k].id = t.id
     /\ lastOp.result[k].dueDate = t.dueDate
     /\ lastOp.result[k].paymentStatus = status}

\* ------------------------------------------------------------------ C4
\* C4: whenever getTransactions is called, every stored transaction that is
\* pending with a due date before the start of the current day is returned
\* with status overdue.
C4_PastDueIsReturnedOverdue ==
  TransactionsReturned =>
    \A i \in 1..Len(transactions) :
      LET t == transactions[i] IN
      (t.userId = lastOp.userId /\ PendingPastDue(t))
        => Cardinality(ReturnedLike(t, "overdue"))
             >= Cardinality(StoredLike(t, "pending"))

\* getTransactions returned, after an earlier day's read or not, a transaction
\* stored as pending whose due date is before today.
C4_Witness ==
  /\ TransactionsReturned
  /\ \E i \in 1..Len(transactions) :
       /\ transactions[i].userId = lastOp.userId
       /\ PendingPastDue(transactions[i])
       /\ ReturnedLike(transactions[i], "overdue") # {}

\* ------------------------------------------------------------------ C5
\* C5: a transaction markTransactionAsPaid succeeded for is stored as paid, a
\* stored paid transaction stays as it is until it is deleted, and every
\* getTransactions returns a stored paid transaction as paid, whatever the
\* clock reads.
C5_PaidIsPermanent ==
  /\ []((lastOp.op = "markTransactionAsPaid" /\ lastOp.outcome = "ok") =>
          \A j \in 1..Len(transactions) :
            (transactions[j].id = lastOp.id /\ transactions[j].userId = lastOp.userId)
              => transactions[j].paymentStatus = "paid")
  /\ [][\A i \in 1..Len(transactions) :
          transactions[i].paymentStatus = "paid" =>
            \/ lastOp'.op = "deleteTransaction" /\ lastOp'.id = transactions[i].id
            \/ \E j \in 1..Len(transactions') : transactions'[j] = transactions[i]]_vars
  /\ [](TransactionsReturned =>
          \A i \in 1..Len(transactions) :
            LET t == transactions[i] IN
            (t.userId = lastOp.userId /\ t.paymentStatus = "paid")
              => Cardinality(ReturnedLike(t, "paid"))
                   >= Cardinality(StoredLike(t, "paid")))

\* getTransactions returned as paid a credit transaction that was marked paid
\* and whose due date is before today.
C5_Witness ==
  /\ TransactionsReturned
  /\ \E i \in 1..Len(transactions) :
       LET t == transactions[i] IN
       /\ t.userId = lastOp.userId
       /\ t.paymentType = "credit"
       /\ t.paymentStatus = "paid"
       /\ IsSome(t.dueDate)
       /\ t.dueDate[1] < StartOfToday(now)
       /\ ReturnedLike(t, "paid") # {}

\* ------------------------------------------------------------------ C6
\* C6: a transaction getTransactions returns as overdue is a credit
\* transaction, has a due date before the start of the current day and is not
\* stored as paid.
C6_OverdueIsUnpaidCreditPastDue ==
  TransactionsReturned =>
    \A k \in 1..Len(lastOp.result) :
      LET r == lastOp.result[k] IN
      r.paymentStatus = "overdue" =>
        /\ r.paymentType = "credit"
        /\ IsSome(r.dueDate)
        /\ r.dueDate[1] < StartOfToday(now)
        /\ StoredLike(r, "pending") # {}

\* ------------------------------------------------------------------ C7
\* C7: every cash transaction is paid and has no due date, as stored and as
\* getTransactions returns it.
C7_CashIsPaidWithoutDueDate ==
  /\ \A i \in 1..Len(transactions) :
       transactions[i].paymentType = "cash" =>
         transactions[i].paymentStatus = "paid" /\ transactions[i].dueDate = None
  /\ TransactionsReturned =>
       \A k \in 1..Len(lastOp.result) :
         lastOp.result[k].paymentType = "cash" =>
           /\ lastOp.result[k].paymentStatus = "paid"
           /\ lastOp.result[k].dueDate = None

\* getTransactions returned, a day after its date, a cash transaction that was
\* entered with a credit period.
C7_Witness ==
  /\ TransactionsReturned
  /\ \E k \in 1..Len(lastOp.result) :
       /\ lastOp.result[k].paymentType = "cash"
       /\ Truthy(lastOp.result[k].creditPeriod)
       /\ lastOp.result[k].date + TicksPerDay < now

\* ------------------------------------------------------------------ C8
\* C8: a credit transaction is created pending; with a credit period of N > 0
\* days its due date is its date plus N days, with no credit period it has no
\* due date, and a credit transaction without due date is never returned
\* overdue.
C8_CreditIsPendingAndDueAfterPeriod ==
  /\ (TransactionAdded /\ lastOp.tx.paymentType = "credit") =>
       /\ \E i \in 1..Len(transactions) : transactions[i] = lastOp.result
       /\ lastOp.result.paymentStatus = "pending"
       /\ (IsSome(lastOp.tx.creditPeriod) /\ lastOp.tx.creditPeriod[1] > 0) =>
            lastOp.result.dueDate =
              Some(lastOp.tx.date + lastOp.tx.creditPeriod[1] * TicksPerDay)
       /\ lastOp.tx.creditPeriod = None => lastOp.result.dueDate = None
  /\ TransactionsReturned =>
       \A k \in 1..Len(lastOp.result) :
         (lastOp.result[k].paymentType = "credit" /\ lastOp.result[k].dueDate = None)
           => lastOp.result[k].paymentStatus # "overdue"

\* A credit transaction with a credit period of 1 day was created.
C8_Witness ==
  /\ TransactionAdded
  /\ lastOp.tx.paymentType = "credit"
  /\ lastOp.tx.creditPeriod = Some(1)
  /\ lastOp.result.dueDate = Some(lastOp.tx.date + TicksPerDay)

\* A credit transaction created without credit period was read two days after
\* its date.
C8_WitnessNoPeriod ==
  /\ TransactionsReturned
  /\ \E k \in 1..Len(lastOp.result) :
       /\ lastOp.result[k].paymentType = "credit"
       /\ lastOp.result[k].dueDate = None
       /\ lastOp.result[k].date + 2 * TicksPerDay <= now

\* ------------------------------------------------------------------ specification: catalogue
\* The ids of the products of a list that carry the name `name`.
IdsNamed(prods, name) == {prods[i].id : i \in {j \in 1..Len(prods) : prods[j].name = name}}

\* Inputs for a product added at run time, whose minimum stock level is
\* MaxQty: purchases of 0..MaxQty units at price 0 or 1, with no deduction
\* or with a deduction larger than any quantity, and sales of 0..MaxQty units.
CatalogueInputs(prods) ==
  {[productId |-> pid, type |-> "purchase", quantity |-> q, deduction |-> d,
    extraAmount |-> 0, pricePerUnit |-> p, date |-> T0,
    paymentType |-> "cash", creditPeriod |-> None] :
     pid \in IdsNamed(prods, "Widget"),
     q \in 0..MaxQty, d \in {0, MaxQty + 1}, p \in {0, 1}}
  \cup
  {[productId |-> pid, type |-> "sale", quantity |-> q, deduction |-> 0,
    extraAmount |-> 0, pricePerUnit |-> 1, date |-> T0,
    paymentType |-> "cash", creditPeriod |-> None] :
     pid \in IdsNamed(prods, "Widget"), q \in 0..MaxQty}

NextCat ==
  \/ \E product \in ProductInputs : AddProduct(product, Owner)
  \/ \E tx \in CatalogueInputs(GetProducts(Owner)) :
       AddTransaction(tx, GetProducts(Owner), Owner)
  \/ ReadInventorySummary(Owner)

SpecCat == Init /\ [][NextCat]_vars

\* ------------------------------------------------------------------ C11
\* C11: the status of every InventoryItem is out when stock <= 0, low when
\* 0 < stock < minStockLevel and ok when stock >= minStockLevel and stock > 0;
\* a stock equal to a positive minStockLevel is ok and a negative stock is out.
C11_StatusClassification ==
  SummaryReturned =>
    \A k \in 1..Len(lastOp.result) :
      LET item == lastOp.result[k] IN
      /\ item.stock <= 0 => item.status = "out"
      /\ (0 < item.stock /\ item.stock < item.minStockLevel) => item.status = "low"
      /\ (item.stock >= item.minStockLevel /\ item.stock > 0) => item.status = "ok"

\* A summary was returned with a product whose stock is its positive minimum
\* level, and with a product out of stock.
C11_Witness ==
  /\ SummaryReturned
  /\ \E k \in 1..Len(lastOp.result) :
       /\ lastOp.result[k].stock = lastOp.result[k].minStockLevel
       /\ lastOp.result[k].stock > 0
       /\ lastOp.result[k].status = "ok"
  /\ \E k \in 1..Len(lastOp.result) : lastOp.result[k].status = "out"

\* A summary was returned with a product of negative stock, and one with a
\* product whose stock is positive and below its minimum level.
C11_WitnessNegative ==
  /\ SummaryReturned
  /\ \E k \in 1..Len(lastOp.result) :
       lastOp.result[k].stock < 0 /\ lastOp.result[k].status = "out"

C11_WitnessLow ==
  /\ SummaryReturned
  /\ \E k \in 1..Len(lastOp.result) :
       /\ 0 < lastOp.result[k].stock
       /\ lastOp.result[k].stock < lastOp.result[k].minStockLevel
       /\ lastOp.result[k].status = "low"

\* ------------------------------------------------------------------ C12
\* C12: addTransaction persists no input whose quantity is not greater than 0,
\* whose unit price is not greater than 0 or whose deduction exceeds the
\* quantity: every transaction it adds has a positive quantity, a positive
\* price and a net quantity >= 0.
C12_InvalidInputRejected ==
  TransactionAdded =>
    /\ lastOp.tx.quantity > 0
    /\ lastOp.tx.pricePerUnit > 0
    /\ lastOp.tx.deduction <= lastOp.tx.quantity
    /\ lastOp.result.quantity - lastOp.result.deduction >= 0

\* ------------------------------------------------------------------ specification: two owners
\* The other owner.
Other == "u-2"

\* Inputs of the two owners: a purchase on one day's credit of the first
\* product of the list handed over.
OwnerInputs(prods) ==
  {[productId |-> pid, type |-> "purchase", quantity |-> 1, deduction |-> 0,
    extraAmount |-> 0, pricePerUnit |-> 1, date |-> T0 - TicksPerDay,
    paymentType |-> "credit", creditPeriod |-> Some(1)] :
     pid \in FirstIds(prods, 1)}

\* Either owner calls the service; the other owner, who starts with no
\* product, adds its own.  The product list handed to addTransaction is one
\* that getProducts returned, to the caller or to the other owner.
NextOwn ==
  \/ \E product \in ProductInputs : AddProduct(product, Other)
  \/ \E userId \in Users, listOf \in Users :
       \E tx \in OwnerInputs(GetProducts(listOf)) :
         AddTransaction(tx, GetProducts(listOf), userId)
  \/ \E userId \in Users, id \in TransactionIds : MarkTransactionAsPaid(id, userId)
  \/ \E userId \in Users, id \in TransactionIds : DeleteTransaction(id, userId)
  \/ \E userId \in Users : ReadProducts(userId)
  \/ \E userId \in Users : ReadTransactions(userId)
  \/ \E userId \in Users : ReadInventorySummary(userId)

SpecOwn == Init /\ [][NextOwn]_vars

\* The rows of a sequence that `userId` owns, in their order.
OwnedBy(rows, userId) == SelectSeq(rows, LAMBDA r : r.userId = userId)

\* ------------------------------------------------------------------ C13
\* C13: addTransaction persists a transaction only when its productId is the
\* id of a product that belongs to the calling owner; otherwise it fails and
\* persists nothing.
C13_ProductOfCallerOrNotFound ==
  TransactionAdded =>
    \E i \in 1..Len(products) :
      /\ products[i].id = lastOp.tx.productId
      /\ products[i].userId = lastOp.userId

\* ------------------------------------------------------------------ C15
\* C15: deleteTransaction(id, userId) removes only transactions whose id is id
\* and whose owner is userId: every other stored transaction stays, in its
\* place, and the products stay as they are; when the transaction with that id
\* belongs to another owner nothing is removed.
C15_DeleteRemovesOnlyTheOwnedRow ==
  [][lastOp'.op = "deleteTransaction" =>
       LET Kept(t) == t.id # lastOp'.id \/ t.userId # lastOp'.userId IN
       /\ products' = products
       /\ SelectSeq(transactions', Kept) = SelectSeq(transactions, Kept)
       /\ \A j \in 1..Len(transactions') :
            \E i \in 1..Len(transactions) : transactions[i] = transactions'[j]
       /\ (\A i \in 1..Len(transactions) : Kept(transactions[i]))
            => transactions' = transactions]_vars

\* deleteTransaction completed for an id that a transaction of another owner
\* carries, and that transaction is in the store.
C15_Witness ==
  /\ lastOp.op = "deleteTransaction"
  /\ lastOp.outcome = "ok"
  /\ \E i \in 1..Len(transactions) :
       /\ transactions[i].id = lastOp.id
       /\ transactions[i].userId # lastOp.userId
  /\ \E i \in 1..Len(transactions) : transactions[i].userId = lastOp.userId

\* ------------------------------------------------------------------ C18
\* C18: getTransactions, getProducts and getInventorySummary of an owner
\* return only rows of that owner, their results are those the same read
\* gives on the store without the rows of the other owners, and the calls of
\* an owner leave the rows of every other owner as they are.
C18_ReadsAreScopedToTheOwner ==
  /\ [](\A userId \in Users :
          /\ \A k \in 1..Len(GetTransactions(userId)) :
               GetTransactions(userId)[k].userId = userId
          /\ \A k \in 1..Len(GetProducts(userId)) :
               GetProducts(userId)[k].userId = userId
          /\ \A k \in 1..Len(GetInventorySummary(userId)) :
               GetInventorySummary(userId)[k].userId = userId
          /\ GetTransactions(userId) =
               TransactionsOf(OwnedBy(transactions, userId), userId, now)
          /\ GetProducts(userId) = ProductsOf(OwnedBy(products, userId), userId)
          /\ GetInventorySummary(userId) =
               InventorySummaryOf(OwnedBy(products, userId),
                                  OwnedBy(transactions, userId), userId, now))
  /\ []((lastOp.op \in {"getTransactions", "getProducts", "getInventorySummary"}) =>
          \A k \in 1..Len(lastOp.result) : lastOp.result[k].userId = lastOp.userId)
  /\ [][\A userId \in Users :
          ("userId" \in DOMAIN lastOp' /\ lastOp'.userId # userId) =>
            /\ OwnedBy(transactions', userId) = OwnedBy(transactions, userId)
            /\ OwnedBy(products', userId) = OwnedBy(products, userId)]_vars

\* An owner read its transactions, not all of them paid, while the store holds
\* a product and a transaction of another owner.
C18_Witness ==
  /\ TransactionsReturned
  /\ lastOp.result # <<>>
  /\ \E i \in 1..Len(transactions) : transactions[i].userId # lastOp.userId
  /\ \E i \in 1..Len(products) : products[i].userId # lastOp.userId
  /\ \E i \in 1..Len(products) : products[i].userId = lastOp.userId

\* ------------------------------------------------------------------ C14
\* C14: markTransactionAsPaid(id, userId) completes only when a transaction
\* with that id owned by userId exists; when there is none, or the transaction
\* belongs to another owner, it fails.
C14_MarkPaidFailsWithoutOwnedRow ==
  (lastOp.op = "markTransactionAsPaid" /\ lastOp.outcome = "ok") =>
    \E i \in 1..Len(transactions) :
      /\ transactions[i].id = lastOp.id
      /\ transactions[i].userId = lastOp.userId

\* ------------------------------------------------------------------ C16
\* The stored transactions before the addTransaction that has just completed:
\* the networked store put the new row last, the mock put it first.
StoreBeforeAdd ==
  IF isSupabaseConfigured
  THEN SubSeq(transactions, 1, Len(transactions) - 1)
  ELSE Tail(transactions)

\* C16: when a transaction is added and then deleted by its id, the inventory
\* summary of its owner is the one of before the add.
C16_DeleteRevertsAdd ==
  [][(/\ TransactionAdded
      /\ lastOp'.op = "deleteTransaction"
      /\ lastOp'.outcome = "ok"
      /\ lastOp'.userId = lastOp.userId
      /\ lastOp'.id = lastOp.result.id)
     => InventorySummaryOf(products', transactions', lastOp.userId, now')
          = InventorySummaryOf(products, StoreBeforeAdd, lastOp.userId, now)]_vars

\* ------------------------------------------------------------------ C17
\* C17: a markTransactionAsPaid or deleteTransaction call that repeats the
\* call that has just completed, with the same arguments, leaves the stored
\* transactions and products as the first call left them.
C17_RetryChangesNothing ==
  [][(/\ lastOp.op \in {"markTransactionAsPaid", "deleteTransaction"}
      /\ lastOp.outcome = "ok"
      /\ lastOp'.op = lastOp.op
      /\ lastOp'.id = lastOp.id
      /\ lastOp'.userId = lastOp.userId)
     => transactions' = transactions /\ products' = products]_vars

\* markTransactionAsPaid completed for a transaction whose due date is before
\* today and the transaction is stored as paid: the state in which the call is
\* repeated.
C17_Witness ==
  /\ lastOp.op = "markTransactionAsPaid"
  /\ lastOp.outcome = "ok"
  /\ \E i \in 1..Len(transactions) :
       /\ transactions[i].id = lastOp.id
       /\ transactions[i].userId = lastOp.userId
       /\ transactions[i].paymentStatus = "paid"
       /\ IsSome(transactions[i].dueDate)
       /\ transactions[i].dueDate[1] < StartOfToday(now)

\* deleteTransaction completed and no transaction of the caller carries the
\* id: the state in which the call is repeated.
C17_WitnessDelete ==
  /\ lastOp.op = "deleteTransaction"
  /\ lastOp.outcome = "ok"
  /\ lastOp.id # MissingTransactionId
  /\ transactions # <<>>
  /\ \A i \in 1..Len(transactions) : transactions[i].id # lastOp.id

\* ------------------------------------------------------------------ specification: dates
\* Inputs that vary the transaction date: purchases dated today and dated
\* yesterday, for cash and on credit.
DatedInputs(prods) ==
  {[productId |-> pid, type |-> "purchase", quantity |-> 1, deduction |-> 0,
    extraAmount |-> 0, pricePerUnit |-> 1, date |-> d,
    paymentType |-> terms[1], creditPeriod |-> terms[2]] :
     pid \in FirstIds(prods, 1), d \in {T0 - TicksPerDay, T0},
     terms \in {<<"cash", None>>, <<"credit", Some(1)>>}}

NextDates ==
  \/ \E tx \in DatedInputs(GetProducts(Owner)) :
       AddTransaction(tx, GetProducts(Owner), Owner)
  \/ \E id \in TransactionIds : DeleteTransaction(id, Owner)
  \/ ReadTransactions(Owner)

SpecDates == Init /\ [][NextDates]_vars

\* ------------------------------------------------------------------ C19
\* The stored transactions of an owner, the last created first: the networked
\* store keeps them in the order of insertion, the mock puts a new row first.
NewestFirst(userId) ==
  LET own == OwnedBy(transactions, userId)
  IN  IF isSupabaseConfigured
      THEN [i \in 1..Len(own) |-> own[Len(own) + 1 - i]]
      ELSE own

\* C19: getTransactions returns the transactions of the owner by date
\* descending, and those of one date by creation order descending.
C19_ReturnedByDateThenCreationDescending ==
  TransactionsReturned =>
    LET created == NewestFirst(lastOp.userId)
        n == Len(created)
    IN  /\ Len(lastOp.result) = n
        /\ \E f \in [1..n -> 1..n] :
             /\ \A k, m \in 1..n : f[k] = f[m] => k = m
             /\ \A k \in 1..n :
                  /\ lastOp.result[k].id = created[f[k]].id
                  /\ lastOp.result[k].date = created[f[k]].date
             /\ \A k, m \in 1..n :
                  k < m =>
                    \/ created[f[k]].date > created[f[m]].date
                    \/ /\ created[f[k]].date = created[f[m]].date
                       /\ f[k] < f[m]

\* ------------------------------------------------------------------ the App (App.tsx)
\* What fetchData asks the service for: getInventorySummary, getTransactions
\* and getProducts of the user.
FetchedDataOf(prods, rows, userId, clock) ==
  [inventory |-> InventorySummaryOf(prods, rows, userId, clock),
   transactions |-> TransactionsOf(rows, userId, clock),
   products |-> ProductsOf(prods, userId)]

FetchedData(userId) == FetchedDataOf(products, transactions, userId, now)

\* setInventory, setTransactions, setProducts in the App of subscriber s.
SetView(s, data) ==
  view' = [x \in DOMAIN view \cup {s} |-> IF x = s THEN data ELSE view[x]]

\* fetchData() in the App of subscriber s.  The reads of the mock complete
\* within the event-loop turn that calls them; those of the networked store are requests
\* that the store answers later.
FetchData(s) ==
  IF isSupabaseConfigured
  THEN /\ Len(fetching) < MaxFetches
       /\ fetching' = Append(fetching, [sub |-> s, data |-> None])
       /\ UNCHANGED view
  ELSE /\ SetView(s, FetchedData(s.userId))
       /\ UNCHANGED fetching

\* The effect of App.tsx:99-116 when a user is set in the App of tab `tab`:
\* the initial fetch, and dbService.subscribe(user.id, callback).
Subscribe(tab, userId) ==
  /\ \A s \in subscribers : s.tab # tab
  /\ subscribers' = subscribers \cup {[tab |-> tab, userId |-> userId]}
  /\ FetchData([tab |-> tab, userId |-> userId])
  /\ lastOp' = [op |-> "subscribe", userId |-> userId, tab |-> tab]
  /\ UNCHANGED <<isSupabaseConfigured, products, transactions, now, nextId,
                 inflight, submitted>>

\* The cleanup of the effect: unsubscribe().  The handler is removed, an event
\* on its way to it is not handed over.
Unsubscribe(s) ==
  /\ s \in subscribers
  /\ subscribers' = subscribers \ {s}
  /\ inflight' = inflight \ {s}
  /\ lastOp' = [op |-> "unsubscribe", userId |-> s.userId, tab |-> s.tab]
  /\ UNCHANGED <<isSupabaseConfigured, products, transactions, now, nextId,
                 fetching, view, submitted>>

\* The change event reaches subscriber s: its callback runs and calls
\* fetchData().
OnUpdate(s) ==
  /\ s \in inflight
  /\ inflight' = inflight \ {s}
  /\ FetchData(s)
  /\ lastOp' = [op |-> "onUpdate", userId |-> s.userId, tab |-> s.tab]
  /\ UNCHANGED <<isSupabaseConfigured, products, transactions, now, nextId,
                 subscribers, submitted>>

\* The networked store answers the reads of the i-th fetch in flight.
StoreResponds(i) ==
  /\ i \in 1..Len(fetching)
  /\ fetching[i].data = None
  /\ fetching' = [fetching EXCEPT ![i].data = Some(FetchedData(fetching[i].sub.userId))]
  /\ lastOp' = [op |-> "fetchData", userId |-> fetching[i].sub.userId,
                tab |-> fetching[i].sub.tab, outcome |-> "answered"]
  /\ UNCHANGED <<isSupabaseConfigured, products, transactions, now, nextId,
                 subscribers, inflight, view, submitted>>

\* The sequence without its i-th element.
Without(seq, i) == SubSeq(seq, 1, i - 1) \o SubSeq(seq, i + 1, Len(seq))

\* The i-th fetch in flight resumes after `await Promise.all`: the App sets
\* what it holds to the answers.
FetchCompletes(i) ==
  /\ i \in 1..Len(fetching)
  /\ fetching[i].data # None
  /\ SetView(fetching[i].sub, fetching[i].data[1])
  /\ fetching' = Without(fetching, i)
  /\ lastOp' = [op |-> "fetchData", userId |-> fetching[i].sub.userId,
                tab |-> fetching[i].sub.tab, outcome |-> "ok"]
  /\ UNCHANGED <<isSupabaseConfigured, products, transactions, now, nextId,
                 subscribers, inflight, submitted>>

\* A read of the i-th fetch in flight throws: the catch of fetchData logs the
\* error and the App keeps what it holds.
FetchFails(i) ==
  /\ i \in 1..Len(fetching)
  /\ fetching[i].data = None
  /\ fetching' = Without(fetching, i)
  /\ lastOp' = [op |-> "fetchData", userId |-> fetching[i].sub.userId,
                tab |-> fetching[i].sub.tab, outcome |-> "StoreError"]
  /\ UNCHANGED <<isSupabaseConfigured, products, transactions, now, nextId,
                 subscribers, inflight, view, submitted>>

\* ------------------------------------------------------------------ specification: change notification
\* The one input of the owner: a purchase on one day's credit.
NotifiedInputs(prods) ==
  {[productId |-> pid, type |-> "purchase", quantity |-> 1, deduction |-> 0,
    extraAmount |-> 0, pricePerUnit |-> 1, date |-> T0 - TicksPerDay,
    paymentType |-> "credit", creditPeriod |-> Some(1)] :
     pid \in FirstIds(prods, 1)}

\* The Apps of the tabs, all of the same owner, and the calls they make on
\* the transactions; the owner adds a transaction when the store holds as many
\* as at the start, on the networked store once.
NextNotify ==
  \/ \E tab \in Tabs : Subscribe(tab, Owner)
  \/ \E s \in subscribers : Unsubscribe(s)
  \/ \E s \in subscribers : OnUpdate(s)
  \/ \E i \in 1..MaxFetches : StoreResponds(i)
  \/ \E i \in 1..MaxFetches : FetchCompletes(i)
  \/ \E i \in 1..MaxFetches : FetchFails(i)
  \/ /\ Len(transactions) = InitialTxCount
     /\ nextId = Len(INITIAL_PRODUCTS) + 1
     /\ \E tx \in NotifiedInputs(GetProducts(Owner)) :
          AddTransaction(tx, GetProducts(Owner), Owner)
  \/ \E id \in TransactionIds : MarkTransactionAsPaid(id, Owner)
  \/ \E id \in TransactionIds : DeleteTransaction(id, Owner)

\* Events on their way are handed over and fetches in flight come to an end.
SpecNotify ==
  /\ Init /\ [][NextNotify]_vars
  /\ WF_vars(\E s \in subscribers : OnUpdate(s))
  /\ WF_vars(\E i \in 1..MaxFetches : StoreResponds(i))
  /\ WF_vars(\E i \in 1..MaxFetches : FetchCompletes(i))

\* ------------------------------------------------------------------ C20
\* The successful calls that change the store.
Mutation ==
  /\ lastOp.op \in {"addTransaction", "addProduct",
                    "markTransactionAsPaid", "deleteTransaction"}
  /\ lastOp.outcome = "ok"

\* C20: when a mutation has succeeded, a change event is on its way to every
\* callback that is subscribed for the owner at that moment.
C20_MutationNotifiesEverySubscriber ==
  Mutation =>
    \A s \in subscribers : s.userId = lastOp.userId => s \in inflight

\* ------------------------------------------------------------------ C21
\* The fields of a stored transaction.
RowFields ==
  {"id", "createdAt", "userId", "productId", "productName", "type", "quantity",
   "deduction", "extraAmount", "unit", "pricePerUnit", "totalValue", "date",
   "paymentType", "creditPeriod", "dueDate", "paymentStatus"}

\* C21: an addTransaction whose insert the store refuses throws an error with
\* the text the store gave and leaves the stored transactions as they were; one
\* that succeeds adds exactly one row, with every field, the name and unit of
\* the product, a status and a total, and returns it.
C21_InsertIsAllOrNothing ==
  [][lastOp'.op = "addTransaction" =>
       /\ lastOp'.outcome = "StoreError" =>
            /\ transactions' = transactions
            /\ \A f \in {"message", "details", "hint"} :
                 lastOp'.error[f] # "" => lastOp'.message # "Transaction creation failed"
            /\ lastOp'.error.message # "" => lastOp'.message = lastOp'.error.message
       /\ lastOp'.outcome = "ok" =>
            /\ Len(transactions') = Len(transactions) + 1
            /\ \E k \in 1..Len(transactions') :
                 /\ transactions'[k] = lastOp'.result
                 /\ Without(transactions', k) = transactions
            /\ DOMAIN lastOp'.result = RowFields
            /\ \E i \in 1..Len(products) :
                 /\ products[i].id = lastOp'.result.productId
                 /\ products[i].name = lastOp'.result.productName
                 /\ products[i].unit = lastOp'.result.unit
            /\ lastOp'.result.paymentStatus \in {"paid", "pending"}
            /\ lastOp'.result.totalValue \in Int
            /\ lastOp'.result.dueDate \in {None} \cup {Some(d) : d \in 0..(T0 + 40 * TicksPerDay)}
       /\ lastOp'.outcome \notin {"ok", "StoreError"} => transactions' = transactions]_vars

\* The networked store refused an insert with a message while it holds a
\* transaction, and the call threw that message.
C21_Witness ==
  /\ lastOp.op = "addTransaction"
  /\ lastOp.outcome = "StoreError"
  /\ lastOp.error.message # ""
  /\ lastOp.message = lastOp.error.message
  /\ transactions # <<>>

\* The networked store accepted an insert of a transaction on credit.
C21_WitnessInserted ==
  /\ isSupabaseConfigured
  /\ TransactionAdded
  /\ lastOp.result.paymentStatus = "pending"
  /\ IsSome(lastOp.result.dueDate)

\* ------------------------------------------------------------------ specification: stock
\* Purchases and sales of one unit of the first product, for cash.
StockInputs(prods) ==
  {[productId |-> pid, type |-> ty, quantity |-> 1, deduction |-> 0,
    extraAmount |-> 0, pricePerUnit |-> 1, date |-> T0,
    paymentType |-> "cash", creditPeriod |-> None] :
     pid \in FirstIds(prods, 1), ty \in {"purchase", "sale"}}

NextStock ==
  \/ \E tx \in StockInputs(GetProducts(Owner)) :
       AddTransaction(tx, GetProducts(Owner), Owner)
  \/ \E id \in TransactionIds : DeleteTransaction(id, Owner)
  \/ \E id \in TransactionIds : MarkTransactionAsPaid(id, Owner)
  \/ ReadInventorySummary(Owner)

SpecStock == Init /\ [][NextStock]_vars

\* ------------------------------------------------------------------ C22
\* No product of the summary `inv` has a negative stock.
NonNegative(inv) == \A k \in 1..Len(inv) : inv[k].stock >= 0

\* C22: the calls keep the computed stock of every product >= 0; in
\* particular a deleteTransaction made when every stock is >= 0 leaves every
\* stock >= 0.
C22_DeleteKeepsStockNonNegative ==
  [][(/\ lastOp'.op = "deleteTransaction"
      /\ NonNegative(InventorySummaryOf(products, transactions, lastOp'.userId, now)))
     => NonNegative(InventorySummaryOf(products', transactions', lastOp'.userId, now'))]_vars

\* =====================================================================
\* The transaction form of a tab (the single-item form), between the App and
\* the store.
\* =====================================================================

\* What the App of subscriber s holds: empty lists until its first fetch ends.
ViewOf(s) ==
  IF s \in DOMAIN view
  THEN view[s]
  ELSE [inventory |-> <<>>, transactions |-> <<>>, products |-> <<>>]

\* The form accepts every input without looking at the stock.
NoStockCheck(inventory, tx) == TRUE

\* The check the form makes before a sale, on the inventory its App holds:
\* the product is listed and its stock is not below the net quantity.
StockCheck(inventory, tx) ==
  tx.type = "sale" =>
    \E k \in 1..Len(inventory) :
      /\ inventory[k].id = tx.productId
      /\ ~(inventory[k].stock
             < (IF tx.quantity - tx.deduction < 0 THEN 0
                ELSE tx.quantity - tx.deduction))

\* handleTransaction up to its await: the stock check, then the call of
\* dbService.addTransaction with the products its App holds.  The form is
\* disabled while its call is awaited (isSubmitting).
SubmitTransaction(s, tx) ==
  /\ s \in subscribers
  /\ \A r \in submitted : r.sub # s
  /\ IF StockCheck(ViewOf(s).inventory, tx)
     THEN /\ submitted' = submitted \cup
                {[sub |-> s, tx |-> tx, products |-> ViewOf(s).products]}
          /\ lastOp' = [op |-> "handleTransaction", userId |-> s.userId,
                        tab |-> s.tab, tx |-> tx, outcome |-> "submitted"]
     ELSE /\ UNCHANGED submitted
          /\ lastOp' = [op |-> "handleTransaction", userId |-> s.userId,
                        tab |-> s.tab, tx |-> tx,
                        outcome |-> "Insufficient stock"]
  /\ UNCHANGED <<isSupabaseConfigured, products, transactions, now, nextId,
                 subscribers, inflight, fetching, view>>

\* The store takes up the call r of a form: addTransaction runs, and when it
\* succeeds the handler goes on to onRefresh(), the fetchData of its App;
\* when it throws the handler shows the error and fetches nothing.
StoreCommits(r) ==
  /\ r \in submitted
  /\ AddTransactionCall(r.tx, r.products, r.sub.userId)
  /\ submitted' = submitted \ {r}
  /\ IF lastOp'.outcome = "ok"
     THEN IF isSupabaseConfigured
          THEN FetchData(r.sub)
          ELSE /\ SetView(r.sub, FetchedDataOf(products', transactions',
                                               r.sub.userId, now'))
               /\ UNCHANGED fetching
     ELSE UNCHANGED <<fetching, view>>
  /\ UNCHANGED subscribers

\* The stock the mock starts with for its first product.
InitialStock == INITIAL_TRANSACTIONS[1].quantity - INITIAL_TRANSACTIONS[1].deduction

\* What the forms submit: a purchase of one unit, and a sale of the whole
\* stock the mock starts with.
FormInputs(prods) ==
  {[productId |-> pid, type |-> term[1], quantity |-> term[2], deduction |-> 0,
    extraAmount |-> 0, pricePerUnit |-> 1, date |-> T0,
    paymentType |-> "cash", creditPeriod |-> None] :
     pid \in FirstIds(prods, 1),
     term \in {<<"purchase", 1>>, <<"sale", InitialStock>>}}

\* The Apps of two tabs of the same owner and their forms.
NextForm ==
  \/ \E tab \in Tabs : Subscribe(tab, Owner)
  \/ \E s \in subscribers : OnUpdate(s)
  \/ \E i \in 1..MaxFetches : StoreResponds(i)
  \/ \E i \in 1..MaxFetches : FetchCompletes(i)
  \/ \E s \in subscribers : \E tx \in FormInputs(ViewOf(s).products) :
       SubmitTransaction(s, tx)
  \/ \E r \in submitted : StoreCommits(r)

SpecForm == Init /\ [][NextForm]_vars

\* ------------------------------------------------------------------ C23
\* C23: the stock check is made by the form on the inventory its App holds
\* and the insert by the store, in two steps: every sale handed to the store
\* passed the check of its form, and two sales of the same product can both
\* pass it before either is stored, after which both are stored and the stock
\* is negative.
C23_SubmittedSalesPassedTheCheck ==
  [][\A r \in submitted' \ submitted :
       r.tx.type = "sale" =>
         \E k \in 1..Len(ViewOf(r.sub).inventory) :
           /\ ViewOf(r.sub).inventory[k].id = r.tx.productId
           /\ ViewOf(r.sub).inventory[k].stock >= r.tx.quantity - r.tx.deduction]_vars

\* Two forms await the store with sales of the same product, each within the
\* stock and the two together beyond it.
C23_WitnessBothChecked ==
  \E r1, r2 \in submitted :
    /\ r1.sub # r2.sub
    /\ r1.tx.type = "sale" /\ r2.tx.type = "sale"
    /\ r1.tx.productId = r2.tx.productId
    /\ r1.tx.quantity <= ComputedStock(Owner, r1.tx.productId)
    /\ r2.tx.quantity <= ComputedStock(Owner, r1.tx.productId)
    /\ r1.tx.quantity + r2.tx.quantity > ComputedStock(Owner, r1.tx.productId)

\* Both sales are stored, each within the stock there was without it, and the
\* stock of the product is negative.
C23_Witness ==
  /\ submitted = {}
  /\ lastOp.op = "addTransaction" /\ lastOp.outcome = "ok"
  /\ \E i, j \in StoredOf(Owner, lastOp.tx.productId, "sale") :
       /\ i # j
       /\ ComputedStock(Owner, lastOp.tx.productId) < 0
       /\ ComputedStock(Owner, lastOp.tx.productId) + NetQuantity[i] >= 0
       /\ ComputedStock(Owner, lastOp.tx.productId) + NetQuantity[j] >= 0

\* =====================================================================
\* The reads, while the clock advances and rows become due.
\* =====================================================================
ReadInputs(prods) ==
  {[productId |-> pid, type |-> "purchase", quantity |-> 1, deduction |-> 0,
    extraAmount |-> 0, pricePerUnit |-> 1, date |-> T0 - TicksPerDay,
    paymentType |-> terms[1], creditPeriod |-> terms[2]] :
     pid \in FirstIds(prods, 1),
     terms \in {<<"cash", None>>, <<"credit", Some(0)>>, <<"credit", Some(1)>>}}

NextReads ==
  \/ \E tx \in ReadInputs(GetProducts(Owner)) :
       AddTransaction(tx, GetProducts(Owner), Owner)
  \/ \E id \in TransactionIds : MarkTransactionAsPaid(id, Owner)
  \/ ReadProducts(Owner)
  \/ ReadTransactions(Owner)
  \/ ReadInventorySummary(Owner)
  \/ Tick

SpecReads == Init /\ [][NextReads]_vars

\* ------------------------------------------------------------------ C24
\* The last call was one of the three reads.
ReadReturned ==
  lastOp.op \in {"getProducts", "getTransactions", "getInventorySummary"}

\* C24: getProducts, getTransactions and getInventorySummary leave the stored
\* products and transactions as they are, and the paymentStatus of a stored
\* row is always pending or paid, never overdue.
C24_ReadsLeaveTheStoreAlone ==
  /\ [](\A i \in 1..Len(transactions) :
          transactions[i].paymentStatus \in {"pending", "paid"})
  /\ [][ReadReturned' =>
          /\ products' = products
          /\ transactions' = transactions
          /\ nextId' = nextId]_vars

\* getTransactions returned a row as overdue and the row is stored as pending.
C24_Witness ==
  /\ lastOp.op = "getTransactions"
  /\ \E k \in 1..Len(lastOp.result) :
       /\ lastOp.result[k].paymentStatus = "overdue"
       /\ \E i \in 1..Len(transactions) :
            /\ transactions[i].id = lastOp.result[k].id
            /\ transactions[i].paymentStatus = "pending"

\* getInventorySummary returned while a stored row was past its due date.
C24_WitnessSummary ==
  /\ lastOp.op = "getInventorySummary"
  /\ \E i \in 1..Len(transactions) : PendingPastDue(transactions[i])

\* =====================================================================
\* The multi-item form of a tab: several rows under one party, date and
\* extra charge.
\* =====================================================================

\* A form field left empty, and a property read from an object that has none.
Empty == <<>>
Undefined == <<"undefined">>

\* The validation loop of handleTransaction over the rows from row k on: the
\* first row not filled in or, for a sale, not covered by the stock of the
\* inventory the App holds ends the handler.
RECURSIVE ValidateItems(_, _, _, _)
ValidateItems(items, k, type, inventory) ==
  IF k > Len(items) THEN "ok"
  ELSE IF \/ items[k].productId = Empty
          \/ items[k].quantity = Empty
          \/ items[k].pricePerUnit = Empty
       THEN "Please fill in all product details for all items."
       ELSE IF ~StockCheck(inventory,
                  [type |-> type, productId |-> items[k].productId,
                   quantity |-> items[k].quantity[1],
                   deduction |-> NumberOr0(items[k].deduction)])
            THEN "Insufficient stock"
            ELSE ValidateItems(items, k + 1, type, inventory)

\* The argument the handler hands to addTransaction: the rows under `items`
\* and the fields of the invoice; the fields of a single row, which
\* addTransaction reads, are not there.
ItemsCall(items, general) ==
  [items |-> [k \in 1..Len(items) |->
                [productId |-> items[k].productId,
                 quantity |-> items[k].quantity[1],
                 deduction |-> NumberOr0(items[k].deduction),
                 pricePerUnit |-> items[k].pricePerUnit[1]]],
   type |-> general.type, date |-> general.date,
   paymentType |-> general.paymentType, creditPeriod |-> general.creditPeriod,
   extraAmount |-> general.extraAmount,
   productId |-> Undefined, quantity |-> Undefined, deduction |-> Undefined,
   pricePerUnit |-> Undefined]

\* handleTransaction of the multi-item form up to its await.
SubmitItems(s, items, general) ==
  /\ s \in subscribers
  /\ \A r \in submitted : r.sub # s
  /\ LET outcome == ValidateItems(items, 1, general.type, ViewOf(s).inventory) IN
     /\ submitted' =
          IF outcome = "ok"
          THEN submitted \cup {[sub |-> s, tx |-> ItemsCall(items, general),
                                products |-> ViewOf(s).products]}
          ELSE submitted
     /\ lastOp' = [op |-> "handleTransaction", userId |-> s.userId,
                   tab |-> s.tab, items |-> items,
                   outcome |-> IF outcome = "ok" THEN "submitted" ELSE outcome]
  /\ UNCHANGED <<isSupabaseConfigured, products, transactions, now, nextId,
                 subscribers, inflight, fetching, view>>

\* The rows of the form: one unit at price 1 of a product the App lists, or
\* a row whose product is not chosen; one or two rows.
ItemRows(prods) ==
  {[productId |-> pid, quantity |-> Some(1), deduction |-> Some(0),
    pricePerUnit |-> Some(1)] : pid \in FirstIds(prods, 2) \cup {Empty}}

ItemsInputs(prods) ==
  {<<row>> : row \in ItemRows(prods)}
    \cup {<<r1, r2>> : r1 \in ItemRows(prods), r2 \in ItemRows(prods)}

GeneralInputs ==
  {[type |-> ty, date |-> T0, paymentType |-> "cash", creditPeriod |-> None,
    extraAmount |-> 1] : ty \in {"purchase", "sale"}}

NextItems ==
  \/ \E tab \in Tabs : Subscribe(tab, Owner)
  \/ \E i \in 1..MaxFetches : StoreResponds(i)
  \/ \E i \in 1..MaxFetches : FetchCompletes(i)
  \/ \E s \in subscribers :
       \E items \in ItemsInputs(ViewOf(s).products), general \in GeneralInputs :
         SubmitItems(s, items, general)
  \/ \E r \in submitted : StoreCommits(r)

SpecItems == Init /\ [][NextItems]_vars

\* ------------------------------------------------------------------ C25
\* C25: when the store takes up a multi-item form of N valid rows, N rows
\* are stored, one per row of the form (unless the store reports an error).
C25_EachRowOfTheFormIsStored ==
  [][\A r \in submitted \ submitted' :
       \/ lastOp'.outcome = "StoreError"
       \/ Len(transactions') = Len(transactions) + Len(r.tx.items)]_vars

\* =====================================================================
\* The consolidated invoice of the transactions selected in the history of
\* a tab.
\* =====================================================================

\* n.toLocaleString('en-IN', { minimumFractionDigits: 2 }) of an amount in
\* hundredths: its sign and its digits.  `negated` tells that the amount is
\* the negation -v of v, which for v = 0 is the negative zero.
LocaleString(v, negated) ==
  IF negated
  THEN [sign |-> IF v >= 0 THEN "-" ELSE "", hundredths |-> Abs(v)]
  ELSE [sign |-> IF v < 0 THEN "-" ELSE "", hundredths |-> Abs(v)]

\* itemsToInvoice.reduce from item k on, with the sum so far.
RECURSIVE ReduceNet(_, _, _)
ReduceNet(items, k, sum) ==
  IF k > Len(items) THEN sum
  ELSE ReduceNet(items, k + 1,
         sum + (IF items[k].type = "sale" THEN items[k].totalValue
                ELSE 0 - items[k].totalValue))

RECURSIVE ReducePlain(_, _, _)
ReducePlain(items, k, sum) ==
  IF k > Len(items) THEN sum
  ELSE ReducePlain(items, k + 1, sum + items[k].totalValue)

\* A faulty variant: no total is negated, whatever the selection holds.
PlainInvoice(items) ==
  [isMixed |-> FALSE,
   tableRows |-> [k \in 1..Len(items) |->
                    [type |-> items[k].type,
                     displayTotal |-> LocaleString(items[k].totalValue, FALSE)]],
   totalAmount |-> LocaleString(ReducePlain(items, 1, 0), FALSE)]

\* The table and the grand total generateConsolidatedPDF prints for the
\* selected rows `items`.
ConsolidatedInvoice(items) ==
  LET hasSales == \E k \in 1..Len(items) : items[k].type = "sale"
      hasPurchases == \E k \in 1..Len(items) : items[k].type = "purchase"
      isMixed == hasSales /\ hasPurchases
  IN  [isMixed |-> isMixed,
       tableRows |-> [k \in 1..Len(items) |->
                        [type |-> items[k].type,
                         displayTotal |->
                           LocaleString(items[k].totalValue,
                                        isMixed /\ items[k].type = "purchase")]],
       totalAmount |->
         LocaleString(IF isMixed THEN ReduceNet(items, 1, 0)
                      ELSE ReducePlain(items, 1, 0), FALSE)]

\* The rows of the history of subscriber s whose id is selected.
ItemsToInvoice(s, selectedIds) ==
  SelectSeq(ViewOf(s).transactions, LAMBDA t : t.id \in selectedIds)

\* generateConsolidatedPDF(selectedIds) in the tab of subscriber s.
GenerateConsolidatedPDF(s, selectedIds) ==
  /\ s \in subscribers
  /\ lastOp' =
       IF ItemsToInvoice(s, selectedIds) = <<>>
       THEN [op |-> "generateConsolidatedPDF", userId |-> s.userId,
             tab |-> s.tab, selectedIds |-> selectedIds, outcome |-> "nothing"]
       ELSE [op |-> "generateConsolidatedPDF", userId |-> s.userId,
             tab |-> s.tab, selectedIds |-> selectedIds, outcome |-> "saved",
             doc |-> ConsolidatedInvoice(ItemsToInvoice(s, selectedIds))]
  /\ UNCHANGED <<isSupabaseConfigured, products, transactions, now, nextId,
                 subscribers, inflight, fetching, view, submitted>>

\* A purchase of two units at price 2 and a sale of one unit at price 1.
InvoiceInputs(prods) ==
  {[productId |-> pid, type |-> term[1], quantity |-> term[2], deduction |-> 0,
    extraAmount |-> 0, pricePerUnit |-> term[2], date |-> T0,
    paymentType |-> "cash", creditPeriod |-> None] :
     pid \in FirstIds(prods, 1),
     term \in {<<"purchase", 2>>, <<"sale", 1>>}}

\* The ids shown in the history of subscriber s.
ShownIds(s) ==
  {ViewOf(s).transactions[k].id : k \in 1..Len(ViewOf(s).transactions)}

\* One tab of the owner: transactions are added, the history is fetched, and
\* invoices are made of selections of it.
NextInvoice ==
  \/ Subscribe("tab-1", Owner)
  \/ \E s \in subscribers : OnUpdate(s)
  \/ \E i \in 1..MaxFetches : StoreResponds(i)
  \/ \E i \in 1..MaxFetches : FetchCompletes(i)
  \/ \E tx \in InvoiceInputs(GetProducts(Owner)) :
       AddTransaction(tx, GetProducts(Owner), Owner)
  \/ \E s \in subscribers : \E selectedIds \in SUBSET ShownIds(s) :
       GenerateConsolidatedPDF(s, selectedIds)

SpecInvoice == Init /\ [][NextInvoice]_vars

\* ------------------------------------------------------------------ C26
\* The rows the last invoice was made of, and those of one type among them.
Invoiced ==
  ItemsToInvoice([tab |-> lastOp.tab, userId |-> lastOp.userId],
                 lastOp.selectedIds)

InvoicedOf(type) == {k \in 1..Len(Invoiced) : Invoiced[k].type = type}

InvoicedTotalValue == [k \in 1..Len(Invoiced) |-> Invoiced[k].totalValue]

\* The amount a printed figure stands for.
Printed(figure) ==
  IF figure.sign = "-" THEN 0 - figure.hundredths ELSE figure.hundredths

\* C26: in a consolidated invoice of purchases and sales every purchase
\* total is printed negated and the grand total is the sum of the sale totals
\* less the sum of the purchase totals; in an invoice of sales only or of
\* purchases only every total is printed as it is and the grand total is
\* their sum.
C26_MixedInvoiceIsNetSettlement ==
  (lastOp.op = "generateConsolidatedPDF" /\ lastOp.outcome = "saved") =>
    /\ Len(lastOp.doc.tableRows) = Len(Invoiced)
    /\ IF InvoicedOf("sale") # {} /\ InvoicedOf("purchase") # {}
       THEN /\ \A k \in InvoicedOf("purchase") :
                 /\ Printed(lastOp.doc.tableRows[k].displayTotal)
                      = 0 - Invoiced[k].totalValue
                 /\ Invoiced[k].totalValue >= 0
                      => lastOp.doc.tableRows[k].displayTotal.sign = "-"
            /\ \A k \in InvoicedOf("sale") :
                 Printed(lastOp.doc.tableRows[k].displayTotal)
                   = Invoiced[k].totalValue
            /\ Printed(lastOp.doc.totalAmount)
                 = Sum(InvoicedTotalValue, InvoicedOf("sale"))
                     - Sum(InvoicedTotalValue, InvoicedOf("purchase"))
       ELSE /\ \A k \in 1..Len(Invoiced) :
                 Printed(lastOp.doc.tableRows[k].displayTotal)
                   = Invoiced[k].totalValue
            /\ Printed(lastOp.doc.totalAmount)
                 = Sum(InvoicedTotalValue, 1..Len(Invoiced))

\* An invoice was made of a purchase and a sale.
C26_Witness ==
  /\ lastOp.op = "generateConsolidatedPDF" /\ lastOp.outcome = "saved"
  /\ InvoicedOf("sale") # {} /\ InvoicedOf("purchase") # {}

\* An invoice was made of two rows of the same type.
C26_WitnessOneType ==
  /\ lastOp.op = "generateConsolidatedPDF" /\ lastOp.outcome = "saved"
  /\ Len(Invoiced) >= 2
  /\ InvoicedOf("sale") = {} \/ InvoicedOf("purchase") = {}

\* ------------------------------------------------------------------ C27
\* C27: whenever getTransactions returns, the mock and the networked service
\* would report the same paymentStatus for every stored row at the clock of
\* the call, also for a pending row due earlier on the day of the call.
C27_BothServicesReportTheSameStatus ==
  TransactionsReturned =>
    \A i \in 1..Len(transactions) :
      MockRefreshStatus(transactions[i], now)
        = SupabaseRefreshStatus(transactions[i], now)

\* ------------------------------------------------------------------ C28
\* C28: in the mock no two stored transactions share an id and no two stored
\* products share an id, whenever the rows were created.
C28_MockIdsAreUnique ==
  ~isSupabaseConfigured =>
    /\ \A i, j \in 1..Len(transactions) :
         transactions[i].id = transactions[j].id => i = j
    /\ \A i, j \in 1..Len(products) :
         products[i].id = products[j].id => i = j

\* =====================================================================
\* The fetches of the Apps: started by subscribing, by change notifications
\* and by the refresh that follows an action of the user in the tab.
\* =====================================================================

\* onRefresh(): the App of subscriber s fetches again.
Refresh(s) ==
  /\ s \in subscribers
  /\ FetchData(s)
  /\ lastOp' = [op |-> "onRefresh", userId |-> s.userId, tab |-> s.tab]
  /\ UNCHANGED <<isSupabaseConfigured, products, transactions, now, nextId,
                 subscribers, inflight, submitted>>

\* The Apps of the tabs of one owner fetch, the store answers every read, and
\* the owner changes the transactions.
NextFetch ==
  \/ \E tab \in Tabs : Subscribe(tab, Owner)
  \/ \E s \in subscribers : OnUpdate(s)
  \/ \E s \in subscribers : Refresh(s)
  \/ \E i \in 1..MaxFetches : StoreResponds(i)
  \/ \E i \in 1..MaxFetches : FetchCompletes(i)
  \/ /\ Len(transactions) = InitialTxCount
     /\ nextId = Len(INITIAL_PRODUCTS) + 1
     /\ \E tx \in NotifiedInputs(GetProducts(Owner)) :
          AddTransaction(tx, GetProducts(Owner), Owner)
  \/ \E id \in TransactionIds : MarkTransactionAsPaid(id, Owner)
  \/ \E id \in TransactionIds : DeleteTransaction(id, Owner)

SpecFetch == Init /\ [][NextFetch]_vars

\* ------------------------------------------------------------------ C29
\* C29: on the networked store, once every fetch in flight has completed and
\* every notification has been handed over, what each App holds is what the
\* store holds for its owner: no fetch that completes late puts back an
\* older answer.
C29_ViewConverges ==
  (isSupabaseConfigured /\ fetching = <<>> /\ inflight = {}) =>
    \A s \in subscribers : s \in DOMAIN view => view[s] = FetchedData(s.userId)

\* =====================================================================
\* Two owners, each with the App of a tab, subscribing and unsubscribing
\* while both change their rows.
\* =====================================================================
NextScope ==
  \/ \E tab \in Tabs, userId \in Users : Subscribe(tab, userId)
  \/ \E s \in subscribers : Unsubscribe(s)
  \/ \E s \in subscribers : OnUpdate(s)
  \/ \E i \in 1..MaxFetches : StoreResponds(i)
  \/ \E i \in 1..MaxFetches : FetchCompletes(i)
  \/ \E product \in ProductInputs : AddProduct(product, Other)
  \/ \E userId \in Users, id \in TransactionIds : MarkTransactionAsPaid(id, userId)

SpecScope == Init /\ [][NextScope]_vars

\* ------------------------------------------------------------------ C30
\* C30: a change event is sent only to the subscribers of the owner whose
\* call changed the rows, and only to callbacks that are subscribed: a
\* callback that was unsubscribed is not invoked.
C30_NotifiedWithinTheOwnerScope ==
  [][/\ \A s \in inflight' \ inflight : s.userId = lastOp'.userId
     /\ \A s \in inflight' : s \in subscribers'
     /\ lastOp'.op = "onUpdate" =>
          [tab |-> lastOp'.tab, userId |-> lastOp'.userId] \in subscribers]_vars

====
